---- MODULE Spec2Model ----
(***************************************************************************)
(* Model of the two hubot scripts of webteam-hubot:                        *)
(*   scripts/explain.js  (the /explain command, backed by a spreadsheet)   *)
(*   the /meet command   (a Google Meet link generator)                    *)
(*                                                                         *)
(* JavaScript strings are modelled as sequences of one-character strings,  *)
(* so that trim, toLowerCase, split, replace and slice are computed the    *)
(* way the code computes them.                                             *)
(***************************************************************************)
EXTENDS Integers, Sequences, FiniteSets, TLC

VARIABLES
    participants,   \* SpecMeet: the argument of generateMeetLink
    meetOut,        \* SpecMeet: the value generateMeetLink returned
    row,            \* SpecFormat: the argument of formatRowToMDTable
    rows,           \* SpecFormat: its local array `rows`, as pushed (lines 72-77)
    cells,          \* SpecFormat: the sanitized cells the map of line 79 emits
    mdTable,        \* SpecFormat: the value formatRowToMDTable returned
    explainSheet,   \* the data rows of the sheet "Explain", in sheet order
    whySheet,       \* the data rows of the sheet "Why", in sheet order
    lkQuery,        \* SpecLookup: the argument of the latest fetchExplanation call
    lkOut,          \* SpecLookup: what that call returned (or threw)
    lkPrev,         \* SpecLookup: the call before it, [query, out]
    req,            \* per request: [route, token, text] as received
    pc,             \* per request: where its handler stands
    calls,          \* per request: the backend steps it has started, in order
    sent,           \* per request: the responses sent for it, in order
    fetched,        \* per request: the local `rows` of fetchExplanation
    randomRowIndex, \* per request: the local `randomRowIndex` of fetchExplanation
    ret,            \* per request: the value its awaited promise resolved to
    result,         \* explain.js: the undeclared, hence global, variable `result`
    doc             \* explain.js: the module-level GoogleSpreadsheet object

meetVars == <<participants, meetOut>>
fmtVars == <<row, rows, cells, mdTable>>
sheetVars == <<explainSheet, whySheet>>
lkVars == <<lkQuery, lkOut, lkPrev>>
reqVars == <<req, pc, calls, sent, fetched, randomRowIndex, ret, result, doc>>
vars == <<meetVars, fmtVars, sheetVars, lkVars, reqVars>>

\* ------------------------------------------------------------------------
\* JavaScript values and string primitives
\* ------------------------------------------------------------------------

\* the JavaScript value undefined (a missing body field, a missing cell)
Undefined == <<"undefined">>

\* a call that has not returned yet
Pending == <<"pending">>

\* the exception raised by calling a method on undefined
TypeError == <<"TypeError">>

\* the variables of a specification that is not running
FormatIdle ==
    /\ row = Undefined
    /\ rows = <<>>
    /\ cells = <<>>
    /\ mdTable = Pending

MeetIdle ==
    /\ participants = <<>>
    /\ meetOut = Pending

\* most requests in flight at once
NumReqs == 2

Reqs == 1..NumReqs

NoRequest == [route |-> "none", token |-> Undefined, text |-> Undefined]

\* no request received yet; `result` is not defined before its first assignment
RequestsIdle ==
    /\ req = [r \in Reqs |-> NoRequest]
    /\ pc = [r \in Reqs |-> "idle"]
    /\ calls = [r \in Reqs |-> <<>>]
    /\ sent = [r \in Reqs |-> <<>>]
    /\ fetched = [r \in Reqs |-> <<>>]
    /\ randomRowIndex = [r \in Reqs |-> 0]
    /\ ret = [r \in Reqs |-> Pending]
    /\ result = Undefined
    /\ doc = [auth |-> FALSE, loaded |-> FALSE]

LookupIdle ==
    /\ lkQuery = Pending
    /\ lkOut = Pending
    /\ lkPrev = [query |-> Pending, out |-> Pending]

\* the characters String.prototype.trim strips (those the inputs use)
WhiteSpace == {" ", "\t", "\n", "\r"}

UpperCase == <<"A", "B", "C", "D", "E", "F", "G", "H", "I", "J", "K", "L", "M",
               "N", "O", "P", "Q", "R", "S", "T", "U", "V", "W", "X", "Y", "Z">>

LowerCase == <<"a", "b", "c", "d", "e", "f", "g", "h", "i", "j", "k", "l", "m",
               "n", "o", "p", "q", "r", "s", "t", "u", "v", "w", "x", "y", "z">>

toLowerCaseChar(c) ==
    IF \E i \in DOMAIN UpperCase : UpperCase[i] = c
    THEN LowerCase[CHOOSE i \in DOMAIN UpperCase : UpperCase[i] = c]
    ELSE c

\* String.prototype.toLowerCase / toLocaleLowerCase
toLowerCase(s) == [i \in DOMAIN s |-> toLowerCaseChar(s[i])]

RECURSIVE trimStart(_)
trimStart(s) ==
    IF s = <<>> THEN s
    ELSE IF Head(s) \in WhiteSpace THEN trimStart(Tail(s)) ELSE s

RECURSIVE trimEnd(_)
trimEnd(s) ==
    IF s = <<>> THEN s
    ELSE IF s[Len(s)] \in WhiteSpace THEN trimEnd(SubSeq(s, 1, Len(s) - 1)) ELSE s

\* String.prototype.trim
trim(s) == trimEnd(trimStart(s))

\* String.prototype.split(sep), sep one character: "" splits into [""]
RECURSIVE split(_, _)
split(s, sep) ==
    IF \A i \in DOMAIN s : s[i] # sep THEN <<s>>
    ELSE LET i == CHOOSE k \in DOMAIN s : s[k] = sep /\ \A j \in 1..(k - 1) : s[j] # sep
         IN  <<SubSeq(s, 1, i - 1)>> \o split(SubSeq(s, i + 1, Len(s)), sep)

\* String.prototype.replace(/[set]/, ""): no g flag, the first match only
replaceFirst(s, set) ==
    IF \A i \in DOMAIN s : s[i] \notin set THEN s
    ELSE LET i == CHOOSE k \in DOMAIN s : s[k] \in set /\ \A j \in 1..(k - 1) : s[j] \notin set
         IN  SubSeq(s, 1, i - 1) \o SubSeq(s, i + 1, Len(s))

\* String.prototype.replace(/c/g, by): every match; `by` is "" or one character
replaceAll(s, c, by) ==
    IF by = <<>> THEN SelectSeq(s, LAMBDA x : x # c)
    ELSE [i \in DOMAIN s |-> IF s[i] = c THEN by[1] ELSE s[i]]

\* String.prototype.slice(0, n), n >= 0
slice0(s, n) == SubSeq(s, 1, IF Len(s) < n THEN Len(s) ELSE n)

\* Array.prototype.join(sep) on an array of strings
RECURSIVE join(_, _)
join(arr, sep) ==
    IF arr = <<>> THEN <<>>
    ELSE IF Len(arr) = 1 THEN arr[1]
    ELSE arr[1] \o sep \o join(Tail(arr), sep)

\* ------------------------------------------------------------------------
\* /meet: generateMeetLink
\* ------------------------------------------------------------------------

\* slice(0, 59)
MeetCodeLen == 59

MeetPrefix ==
    <<"Y", "o", "u", "r", " ", "M", "e", "e", "t", " ", "i", "s", " ", "r", "e",
      "a", "d", "y", ":", " ", "h", "t", "t", "p", "s", ":", "/", "/", "g", ".",
      "c", "o", "/", "m", "e", "e", "t", "/">>

meetCodeLong(p) ==
    slice0(replaceAll(replaceAll(p, "@", <<>>), " ", <<"-">>), MeetCodeLen + 1)

meetCodeFirstAt(p) ==
    slice0(replaceAll(replaceFirst(p, {"@"}), " ", <<"-">>), MeetCodeLen)

\* let code = participants.replace(/@/g, "").replace(/ /g, "-").slice(0, 59)
meetCode(p) ==
    slice0(replaceAll(replaceAll(p, "@", <<>>), " ", <<"-">>), MeetCodeLen)

generateMeetLink(p) == MeetPrefix \o meetCode(p) \o <<" ">> \o p

\* ------------------------------------------------------------------------
\* /explain: formatRowToMDTable
\* ------------------------------------------------------------------------

LineBreaks == {"\r", "\n"}

\* const sanitizeValue = (value) => value.replace(/[\r\n]/, "").trim();
sanitizeValue(value) ==
    IF value = Undefined THEN TypeError
    ELSE trim(replaceFirst(value, LineBreaks))

NA == <<"n", "/", "a">>

valueIsEmptyFalsy(value) ==
    \/ value \in {Undefined, <<>>, <<"0">>}
    \/ trim(toLowerCase(value)) = NA

valueIsEmptyNoTrim(value) ==
    \/ value = Undefined
    \/ value = <<>>
    \/ toLowerCase(value) = NA

\* const valueIsEmpty = (value) => !value || value.toLocaleLowerCase().trim() === "n/a";
valueIsEmpty(value) ==
    \/ value = Undefined
    \/ value = <<>>
    \/ trim(toLowerCase(value)) = NA

TableHeaderExplain ==
    <<"|", " ", "E", "x", "p", "l", "a", "i", "n", " ", "|", " ", "D", "e", "f",
      "i", "n", "i", "t", "i", "o", "n", " ", "|", "\n", "|", "-", "-", "|", "-",
      "-", "|", "\n">>

\* let mdTable = `| Title | Description |\n|--|--|\n`;
TableHeader ==
    <<"|", " ", "T", "i", "t", "l", "e", " ", "|", " ", "D", "e", "s", "c", "r",
      "i", "p", "t", "i", "o", "n", " ", "|", "\n", "|", "-", "-", "|", "-", "-",
      "|", "\n">>

LabelPM == <<"P", "M">>
LabelTeam == <<"T", "e", "a", "m">>
LabelContact ==
    <<"C", "o", "n", "t", "a", "c", "t", " ", "c", "h", "a", "n", "n", "e", "l">>
LabelLink == <<"R", "e", "a", "d", " ", "m", "o", "r", "e">>

tableRowsExplainLast(r) ==
    (IF ~valueIsEmpty(r.PM) THEN <<<<LabelPM, r.PM>>>> ELSE <<>>)
        \o (IF ~valueIsEmpty(r.Team) THEN <<<<LabelTeam, r.Team>>>> ELSE <<>>)
        \o (IF ~valueIsEmpty(r.Contact) THEN <<<<LabelContact, r.Contact>>>> ELSE <<>>)
        \o (IF ~valueIsEmpty(r.Link) THEN <<<<LabelLink, r.Link>>>> ELSE <<>>)
        \o <<<<r.Explain, r.Definition>>>>

\* the array `rows` after lines 72-77
tableRows(r) ==
    <<<<r.Explain, r.Definition>>>>
        \o (IF ~valueIsEmpty(r.PM) THEN <<<<LabelPM, r.PM>>>> ELSE <<>>)
        \o (IF ~valueIsEmpty(r.Team) THEN <<<<LabelTeam, r.Team>>>> ELSE <<>>)
        \o (IF ~valueIsEmpty(r.Contact) THEN <<<<LabelContact, r.Contact>>>> ELSE <<>>)
        \o (IF ~valueIsEmpty(r.Link) THEN <<<<LabelLink, r.Link>>>> ELSE <<>>)

\* the two sanitized cells of every entry of `rows` (line 79)
tableCells(rs) == [i \in DOMAIN rs |-> <<sanitizeValue(rs[i][1]), sanitizeValue(rs[i][2])>>]

\* `| ${cell1} | ${cell2} |`
tableLine(c) == <<"|", " ">> \o c[1] \o <<" ", "|", " ">> \o c[2] \o <<" ", "|">>

\* formatRowToMDTable: a missing Explain or Definition makes sanitizeValue throw
formatRowToMDTable(r) ==
    LET cs == tableCells(tableRows(r))
    IN  IF \E i \in DOMAIN cs : TypeError \in {cs[i][1], cs[i][2]}
        THEN TypeError
        ELSE TableHeader \o join([i \in DOMAIN cs |-> tableLine(cs[i])], <<"\n">>)

\* ------------------------------------------------------------------------
\* /explain: fetchExplanation, the part after the rows are fetched
\* ------------------------------------------------------------------------

\* const usage = `Format: ...`; never taken apart, kept as one piece
usage == <<"Format: /explain <concept> eg. /explain MAAS. Add your own here">>

\* sheet.getRows(): one row object per data row. The header occupies sheet row 1
\* (the format shown in the header comment of the file), so the row object of the
\* i-th data row carries rowIndex i + 1, its A1 row number.
getRows(sheet) == [i \in DOMAIN sheet |-> [rowIndex |-> i + 1] @@ sheet[i]]

\* a JavaScript value in a condition: undefined and "" are falsy
Truthy(v) == v # Undefined /\ v # <<>>

\* x || ""
OrEmpty(v) == IF Truthy(v) THEN v ELSE <<>>

\* Array.prototype.find on an array of strings: the first element equal to
\* `wanted`, undefined when there is none
findKeyword(arr, wanted) ==
    IF \E i \in DOMAIN arr : arr[i] = wanted
    THEN arr[CHOOSE i \in DOMAIN arr : arr[i] = wanted /\ \A j \in 1..(i - 1) : arr[j] # wanted]
    ELSE Undefined

aliasKeywordsNoTrim(alias) == split(trim(toLowerCase(alias)), ",")

\* alias.toLowerCase().trim().split(",").map((e) => e.trim().toLocaleLowerCase())
aliasKeywords(alias) ==
    LET parts == split(trim(toLowerCase(alias)), ",")
    IN  [i \in DOMAIN parts |-> toLowerCase(trim(parts[i]))]

rowMatchesExplainOnly(r, explainQuery) ==
    trim(toLowerCase(OrEmpty(r.Explain))) = trim(toLowerCase(explainQuery))

\* the callback of rows.find (lines 107-121); the value of the `||` is used as
\* a condition, so the keyword that find returns counts only when truthy
rowMatches(r, explainQuery) ==
    LET searchQuery == trim(toLowerCase(explainQuery))
        explain == OrEmpty(r.Explain)
        alias == OrEmpty(r.Alias)
    IN  \/ trim(toLowerCase(explain)) = searchQuery
        \/ Truthy(findKeyword(aliasKeywords(alias), searchQuery))

findRowLast(rs, explainQuery) ==
    IF \E i \in DOMAIN rs : rowMatches(rs[i], explainQuery)
    THEN rs[CHOOSE i \in DOMAIN rs :
                /\ rowMatches(rs[i], explainQuery)
                /\ \A j \in (i + 1)..Len(rs) : ~rowMatches(rs[j], explainQuery)]
    ELSE Undefined

\* rows.find(...): the first row the callback accepts, undefined when none
findRow(rs, explainQuery) ==
    IF \E i \in DOMAIN rs : rowMatches(rs[i], explainQuery)
    THEN rs[CHOOSE i \in DOMAIN rs :
                /\ rowMatches(rs[i], explainQuery)
                /\ \A j \in 1..(i - 1) : ~rowMatches(rs[j], explainQuery)]
    ELSE Undefined

\* lines 105-123, from the fetched rows on
explainLookup(explainQuery, rs) ==
    LET found == findRow(rs, explainQuery)
    IN  IF found = Undefined THEN usage ELSE formatRowToMDTable(found)

\* explainQuery.toLowerCase().trim() == "why"
isWhy(explainQuery) == trim(toLowerCase(explainQuery)) = <<"w", "h", "y">>

\* Math.floor(Math.random() * (rows.length + 1)): Math.random() is in [0, 1)
randomRowIndexes(rs) == 0..Len(rs)

\* lines 101-103: whyRandomRow is undefined when no row has the drawn index,
\* and reading .why of it throws
whyLookup(rs, drawn) ==
    IF \E i \in DOMAIN rs : rs[i].rowIndex = drawn
    THEN rs[CHOOSE i \in DOMAIN rs : rs[i].rowIndex = drawn].why
    ELSE TypeError

\* fetchExplanation once the awaited calls have succeeded
fetchExplanationResult(explainQuery, explainRows, whyRows, drawn) ==
    IF isWhy(explainQuery)
    THEN whyLookup(whyRows, drawn)
    ELSE explainLookup(explainQuery, explainRows)

\* the sheets of the specifications that do not vary them
ExampleExplainSheet ==
    << [Explain |-> <<"M", "A", "A", "S">>, Alias |-> <<"m", ",", " ", "M", "e", "t", "a", "l">>,
        Definition |-> <<"f", "a", "s", "t">>, PM |-> <<"A", "n", "t", "o", "n">>,
        Team |-> Undefined, Contact |-> <<"~", "M", "A", "A", "S">>,
        Link |-> <<"m", "a", "a", "s", ".", "i", "o">>],
       [Explain |-> <<"J", "u", "j", "u">>, Alias |-> Undefined,
        Definition |-> <<"o", "p", "s">>, PM |-> <<"N", "/", "A">>,
        Team |-> Undefined, Contact |-> Undefined, Link |-> Undefined] >>

Digits == <<"1", "2", "3", "4", "5", "6", "7", "8", "9">>

WhyRow(i) == [why |-> <<"b", "e", "c", "a", "u", "s", "e", " ", Digits[i]>>]

ExampleWhySheet == <<WhyRow(1), WhyRow(2)>>

SheetsFixed ==
    /\ explainSheet = ExampleExplainSheet
    /\ whySheet = ExampleWhySheet

\* ------------------------------------------------------------------------
\* Spec: the HTTP and chat handlers of both scripts, requests interleaving at
\* their await points
\* ------------------------------------------------------------------------

\* the data rows of the sheet "Why"
MaxWhyRows == 2

MATTERMOST_TOKEN_CMD_EXPLAIN == <<"t", "o", "k", "E">>
MATTERMOST_TOKEN_CMD_MEET == <<"t", "o", "k", "M">>

Routes == {"POST /hubot/explain", "POST /hubot/meet", "explain", "meet"}

Tokens == {MATTERMOST_TOKEN_CMD_EXPLAIN, MATTERMOST_TOKEN_CMD_MEET, Undefined}

ExplainTexts == {Undefined, <<"-", "H">>, <<"m", "a", "a", "s">>, <<" ", "W", "h", "y">>}

MeetTexts == {Undefined, <<"h", "e", "l", "p", " ">>, <<"@", "a", " ", "@", "b">>}

\* what the dispatcher can hand to a handler: a chat message carries no token
\* and its text is the (.*) capture, a string
Requests ==
    [route : {"POST /hubot/explain"}, token : Tokens, text : ExplainTexts]
        \cup [route : {"explain"}, token : {Undefined}, text : ExplainTexts \ {Undefined}]
        \cup [route : {"POST /hubot/meet"}, token : Tokens, text : MeetTexts]
        \cup [route : {"meet"}, token : {Undefined}, text : {<<"@", "a", " ", "@", "b">>}]

unauthorizedWhenMissing(secret, token) == token = Undefined

\* MATTERMOST_TOKEN_CMD_... != req.body.token, on a configured secret
unauthorized(secret, token) == secret # token

RECURSIVE stripDashes(_)
stripDashes(s) ==
    IF s # <<>> /\ Head(s) = "-" THEN stripDashes(Tail(s)) ELSE s

\* !explainQuery || explainQuery.trim().match(/^(-)*h(elp)?$/gi)
explainWantsUsage(text) ==
    \/ ~Truthy(text)
    \/ toLowerCase(stripDashes(trim(text))) \in {<<"h">>, <<"h", "e", "l", "p">>}

\* req.body.text && req.body.text.trim() != 'help'
meetWantsLink(text) == Truthy(text) /\ trim(text) # <<"h", "e", "l", "p">>

\* let result = `Create a new Meet and post the link ...`; kept as one piece
meetHelp == <<"Create a new Meet and post the link to the current channel, format: ...">>

Http(status, text) == [via |-> "http", status |-> status, text |-> text]

Chat(text) == [via |-> "chat", status |-> 0, text |-> text]

\* res.end("") : finishes a response that is still open with an empty body,
\* and does nothing to one that was already sent
resEnd(responses) == IF responses = <<>> THEN <<Http(200, <<>>)>> ELSE responses

InitMain ==
    /\ RequestsIdle
    /\ explainSheet = ExampleExplainSheet
    /\ whySheet = [i \in 1..MaxWhyRows |-> WhyRow(i)]
    /\ LookupIdle
    /\ MeetIdle
    /\ FormatIdle

others == <<meetVars, fmtVars, sheetVars, lkVars>>

\* the start of fetchExplanation: doc.useServiceAccountAuth(...) is called and awaited
StartFetchExplanation(r) ==
    /\ calls' = [calls EXCEPT ![r] = Append(@, "useServiceAccountAuth")]
    /\ pc' = [pc EXCEPT ![r] = "auth"]

\* robot.router.post("/hubot/explain"), up to its first await
ExplainPost(r) ==
    \E q \in Requests :
        /\ q.route = "POST /hubot/explain"
        /\ pc[r] = "idle"
        /\ \A o \in 1..(r - 1) : pc[o] # "idle"
        /\ req' = [req EXCEPT ![r] = q]
        /\ IF unauthorized(MATTERMOST_TOKEN_CMD_EXPLAIN, q.token)
           THEN /\ sent' = [sent EXCEPT ![r] = Append(@, Http(401, <<"Unauthorized">>))]
                /\ pc' = [pc EXCEPT ![r] = "done"]
                /\ UNCHANGED calls
           ELSE IF explainWantsUsage(q.text)
           THEN /\ sent' = [sent EXCEPT ![r] = Append(@, Http(200, usage))]
                /\ pc' = [pc EXCEPT ![r] = "done"]
                /\ UNCHANGED calls
           ELSE /\ StartFetchExplanation(r)
                /\ UNCHANGED sent
        /\ UNCHANGED <<fetched, randomRowIndex, ret, result, doc, others>>

\* robot.respond(/explain (.*)/), up to its first await
ExplainChat(r) ==
    \E q \in Requests :
        /\ q.route = "explain"
        /\ pc[r] = "idle"
        /\ \A o \in 1..(r - 1) : pc[o] # "idle"
        /\ req' = [req EXCEPT ![r] = q]
        /\ StartFetchExplanation(r)
        /\ UNCHANGED <<sent, fetched, randomRowIndex, ret, result, doc, others>>

\* await doc.useServiceAccountAuth(googleServiceCreds) returns; doc.loadInfo() is
\* called and awaited
AuthDone(r) ==
    /\ pc[r] = "auth"
    /\ doc' = [doc EXCEPT !.auth = TRUE]
    /\ calls' = [calls EXCEPT ![r] = Append(@, "loadInfo")]
    /\ pc' = [pc EXCEPT ![r] = "loadInfo"]
    /\ UNCHANGED <<req, sent, fetched, randomRowIndex, ret, result, others>>

\* await doc.loadInfo() returns; the sheet is picked and getRows() is called and
\* awaited
LoadInfoDone(r) ==
    /\ pc[r] = "loadInfo"
    /\ doc' = [doc EXCEPT !.loaded = TRUE]
    /\ calls' = [calls EXCEPT ![r] = Append(@, "getRows")]
    /\ pc' = [pc EXCEPT ![r] = "getRows"]
    /\ UNCHANGED <<req, sent, fetched, randomRowIndex, ret, result, others>>

\* an awaited backend call rejects (authentication, network): nothing in
\* fetchExplanation or in the handlers catches it, so the handler's promise
\* rejects and the request gets no response
BackendFails(r) ==
    /\ pc[r] \in {"auth", "loadInfo", "getRows"}
    /\ pc' = [pc EXCEPT ![r] = "rejected"]
    /\ UNCHANGED <<req, calls, sent, fetched, randomRowIndex, ret, result, doc, others>>

\* await getRows() returns; the rest of fetchExplanation runs to its return or
\* to the TypeError of line 102
GetRowsDone(r) ==
    /\ pc[r] = "getRows"
    /\ LET rs == IF isWhy(req[r].text) THEN getRows(whySheet) ELSE getRows(explainSheet)
       IN  \E d \in randomRowIndexes(rs) :
               LET out == IF isWhy(req[r].text)
                          THEN whyLookup(rs, d)
                          ELSE explainLookup(req[r].text, rs)
               IN  /\ isWhy(req[r].text) \/ d = 0   \* no index is drawn outside "why" mode
                   /\ fetched' = [fetched EXCEPT ![r] = rs]
                   /\ randomRowIndex' = [randomRowIndex EXCEPT ![r] = d]
                   /\ IF out = TypeError
                      THEN /\ pc' = [pc EXCEPT ![r] = "rejected"]
                           /\ UNCHANGED ret
                      ELSE /\ pc' = [pc EXCEPT ![r] = "resume"]
                           /\ ret' = [ret EXCEPT ![r] = out]
    /\ UNCHANGED <<req, calls, sent, result, doc, others>>

sentResultBeforeAssignment == result

\* line 144 reads the global `result` right after line 143 assigned it
sentResult == result'

\* the handler resumes after `await fetchExplanation(...)`
ExplainResume(r) ==
    /\ pc[r] = "resume"
    /\ req[r].route \in {"POST /hubot/explain", "explain"}
    /\ IF req[r].route = "POST /hubot/explain"
       THEN /\ result' = ret[r]
            /\ sent' = [sent EXCEPT ![r] = Append(@, Http(200, sentResult))]
       ELSE /\ sent' = [sent EXCEPT ![r] = Append(@, Chat(ret[r]))]
            /\ UNCHANGED result
    /\ pc' = [pc EXCEPT ![r] = "done"]
    /\ UNCHANGED <<req, calls, fetched, randomRowIndex, ret, doc, others>>

\* generateMeetLink is async but awaits nothing: its promise is resolved when
\* the call returns, and the caller resumes in a later tick
StartGenerateMeetLink(r, text) ==
    /\ calls' = [calls EXCEPT ![r] = Append(@, "generateMeetLink")]
    /\ ret' = [ret EXCEPT ![r] = generateMeetLink(text)]
    /\ pc' = [pc EXCEPT ![r] = "resume"]

\* robot.router.post("/hubot/meet"), up to its await or, without one, to its end
MeetPost(r) ==
    \E q \in Requests :
        /\ q.route = "POST /hubot/meet"
        /\ pc[r] = "idle"
        /\ \A o \in 1..(r - 1) : pc[o] # "idle"
        /\ req' = [req EXCEPT ![r] = q]
        /\ IF unauthorized(MATTERMOST_TOKEN_CMD_MEET, q.token)
           THEN /\ sent' = [sent EXCEPT ![r] = resEnd(Append(@, Http(401, <<"Unauthorized">>)))]
                /\ pc' = [pc EXCEPT ![r] = "done"]
                /\ UNCHANGED <<calls, ret>>
           ELSE IF meetWantsLink(q.text)
           THEN /\ StartGenerateMeetLink(r, q.text)
                /\ UNCHANGED sent
           ELSE /\ sent' = [sent EXCEPT ![r] = resEnd(Append(@, Http(200, meetHelp)))]
                /\ pc' = [pc EXCEPT ![r] = "done"]
                /\ UNCHANGED <<calls, ret>>
        /\ UNCHANGED <<fetched, randomRowIndex, result, doc, others>>

\* robot.respond(/meet (.*)/), up to its await
MeetChat(r) ==
    \E q \in Requests :
        /\ q.route = "meet"
        /\ pc[r] = "idle"
        /\ \A o \in 1..(r - 1) : pc[o] # "idle"
        /\ req' = [req EXCEPT ![r] = q]
        /\ StartGenerateMeetLink(r, q.text)
        /\ UNCHANGED <<sent, fetched, randomRowIndex, result, doc, others>>

\* the handler resumes after `await generateMeetLink(...)`
MeetResume(r) ==
    /\ pc[r] = "resume"
    /\ req[r].route \in {"POST /hubot/meet", "meet"}
    /\ IF req[r].route = "POST /hubot/meet"
       THEN sent' = [sent EXCEPT ![r] = resEnd(Append(@, Http(200, ret[r])))]
       ELSE sent' = [sent EXCEPT ![r] = Append(@, Chat(ret[r]))]
    /\ pc' = [pc EXCEPT ![r] = "done"]
    /\ UNCHANGED <<req, calls, fetched, randomRowIndex, ret, result, doc, others>>

Next ==
    \E r \in Reqs :
        \/ ExplainPost(r)
        \/ ExplainChat(r)
        \/ AuthDone(r)
        \/ LoadInfoDone(r)
        \/ GetRowsDone(r)
        \/ BackendFails(r)
        \/ ExplainResume(r)
        \/ MeetPost(r)
        \/ MeetChat(r)
        \/ MeetResume(r)

Init == InitMain

Spec == Init /\ [][Next]_vars

ExplainPostPassed(r) ==
    /\ req[r].route = "POST /hubot/explain"
    /\ req[r].token = MATTERMOST_TOKEN_CMD_EXPLAIN

\* C1: a POST to /hubot/explain or /hubot/meet whose token differs from the
\* secret of that command is answered 401, that 401 is its only response, and
\* no backend step (authenticate, loadInfo, getRows, generateMeetLink) is ever
\* started for it.
C1_MismatchedToken401 ==
    \A r \in Reqs :
        (\/ req[r].route = "POST /hubot/explain" /\ req[r].token # <<"t", "o", "k", "E">>
         \/ req[r].route = "POST /hubot/meet" /\ req[r].token # <<"t", "o", "k", "M">>)
        => /\ Len(sent[r]) = 1
           /\ sent[r][1].via = "http"
           /\ sent[r][1].status = 401
           /\ calls[r] = <<>>
           /\ pc[r] = "done"

\* a POST to /hubot/meet carrying the secret of /explain and a POST to
\* /hubot/explain carrying no token, both answered
C1_Witness ==
    \E a, b \in Reqs :
        /\ req[a].route = "POST /hubot/meet"
        /\ req[a].token = MATTERMOST_TOKEN_CMD_EXPLAIN
        /\ req[a].text = <<"@", "a", " ", "@", "b">>
        /\ req[b].route = "POST /hubot/explain"
        /\ req[b].token = Undefined
        /\ req[b].text = <<"m", "a", "a", "s">>
        /\ sent[a] # <<>>
        /\ sent[b] # <<>>

\* C8: in "why" mode with a non-empty Why sheet, every fetched row, the last
\* one included, has a row index that some draw of the random index (0 to
\* rowCount inclusive) equals.
C8_EveryRowCanBeDrawn ==
    \A r \in Reqs :
        (/\ req[r].route \in {"POST /hubot/explain", "explain"}
         /\ isWhy(req[r].text)
         /\ fetched[r] # <<>>)
        => \A i \in DOMAIN fetched[r] :
               \E d \in randomRowIndexes(fetched[r]) : fetched[r][i].rowIndex = d

\* C9: a request that passed the token check on /hubot/explain, and an
\* `explain <text>` chat message, never has more than one response, and has
\* exactly one once its handler has ended, on the failure paths too.
C9_ExactlyOneResponse ==
    \A r \in Reqs :
        (ExplainPostPassed(r) \/ req[r].route = "explain")
        => /\ Len(sent[r]) <= 1
           /\ pc[r] \in {"done", "rejected"} => Len(sent[r]) = 1

\* the explanation of the request's own query: the table or the usage string
\* for its text, or in "why" mode the text of the row it drew
OwnExplanation(r) ==
    IF trim(toLowerCase(req[r].text)) = <<"w", "h", "y">>
    THEN LET i == CHOOSE k \in DOMAIN fetched[r] : fetched[r][k].rowIndex = randomRowIndex[r]
         IN  whySheet[i].why
    ELSE fetchExplanationResult(req[r].text, getRows(explainSheet), <<>>, 0)

\* C10: whatever the interleaving of the /hubot/explain requests, the text
\* sent for a request is the explanation of that request's own query.
C10_OwnResult ==
    \A r \in Reqs :
        (ExplainPostPassed(r) /\ pc[r] = "done" /\ calls[r] # <<>>)
        => sent[r] = <<Http(200, OwnExplanation(r))>>

\* request 2 was answered with its own text while request 1, whose
\* fetchExplanation had already returned another text, had not yet resumed
C10_Witness ==
    /\ NumReqs >= 2
    /\ ExplainPostPassed(1)
    /\ ExplainPostPassed(2)
    /\ pc[1] = "resume"
    /\ pc[2] = "done"
    /\ calls[2] # <<>>
    /\ ret[1] # ret[2]
    /\ result = ret[2]

\* ------------------------------------------------------------------------
\* SpecFormat: formatRowToMDTable applied to bounded rows
\* ------------------------------------------------------------------------

FmtExplainValues == {<<"M", "A", "A", "S">>, <<" ", "a", "\n", "b", "\n">>, Undefined}

FmtDefinitionValues ==
    {<<"d">>, <<"x", "\r", "\n", "y", "\n", "z">>, <<"\n", " ", "d", " ">>, Undefined}

FmtOptionalValues ==
    {Undefined, <<>>, <<"N", "/", "A">>, <<"n", "/", "a", " ">>, <<"0">>, <<" ">>,
     <<" ", "x", "\n", "y", "\n">>}

FmtRows ==
    [Explain : FmtExplainValues, Alias : {Undefined}, Definition : FmtDefinitionValues,
     PM : FmtOptionalValues, Team : FmtOptionalValues, Contact : FmtOptionalValues,
     Link : FmtOptionalValues]

InitFormat ==
    /\ row \in FmtRows
    /\ rows = <<>>
    /\ cells = <<>>
    /\ mdTable = Pending
    /\ MeetIdle
    /\ LookupIdle
    /\ SheetsFixed
    /\ RequestsIdle

CallFormatRowToMDTable ==
    /\ mdTable = Pending
    /\ rows' = tableRows(row)
    /\ cells' = tableCells(tableRows(row))
    /\ mdTable' = formatRowToMDTable(row)
    /\ UNCHANGED <<row, meetVars, sheetVars, lkVars, reqVars>>

NextFormat == CallFormatRowToMDTable

SpecFormat == InitFormat /\ [][NextFormat]_vars

\* the optional fields in the order of the table, with their labels
OptionalFields(r) ==
    <<<<LabelPM, r.PM>>, <<LabelTeam, r.Team>>, <<LabelContact, r.Contact>>,
      <<LabelLink, r.Link>>>>

\* a value that is present, not the empty string, and not "n/a" once lower-cased
\* and trimmed
Included(v) ==
    /\ v # Undefined
    /\ Len(v) > 0
    /\ trim(toLowerCase(v)) # <<"n", "/", "a">>

\* C5: each of PM, Team, Contact, Link gets a table row iff its value is
\* non-empty and not "n/a" after lower-casing and trimming ("N/A", "n/a ", ""
\* and a missing field give no row, "0" gives one); the rows that are there
\* come in the order PM, Team, Contact, Link.
C5_OptionalRows ==
    mdTable # Pending =>
        LET opt == SubSeq(rows, 2, Len(rows))
            fields == OptionalFields(row)
        IN  /\ opt = SelectSeq(fields, LAMBDA f : Included(f[2]))
            /\ \A k \in DOMAIN fields :
                  /\ fields[k][2] \in {<<"N", "/", "A">>, <<"n", "/", "a", " ">>, <<>>, Undefined}
                        => \A i \in DOMAIN opt : opt[i][1] # fields[k][1]
                  /\ fields[k][2] = <<"0">>
                        => \E i \in DOMAIN opt : opt[i] = <<fields[k][1], <<"0">>>>

\* a formatted row with PM "N/A", Team "0", Contact "n/a " and no Link
C5_Witness ==
    /\ mdTable \notin {Pending, TypeError}
    /\ row.PM = <<"N", "/", "A">>
    /\ row.Team = <<"0">>
    /\ row.Contact = <<"n", "/", "a", " ">>
    /\ row.Link = Undefined
    /\ Len(rows) = 2

\* C6: every cell put in the table holds no carriage return and no line feed
\* and has no leading or trailing whitespace.
C6_CellsSanitized ==
    mdTable \notin {Pending, TypeError} =>
        \A i \in DOMAIN cells : \A j \in 1..2 :
            LET c == cells[i][j]
            IN  /\ \A k \in DOMAIN c : c[k] \notin {"\r", "\n"}
                /\ c # <<>> => c[1] \notin WhiteSpace /\ c[Len(c)] \notin WhiteSpace

\* ------------------------------------------------------------------------
\* SpecLookup: fetchExplanation applied to bounded sheets and queries
\* ------------------------------------------------------------------------

\* most data rows of the sheet "Explain"
MaxRows == 2

LkRow(explain, alias, definition, pm) ==
    [Explain |-> explain, Alias |-> alias, Definition |-> definition, PM |-> pm,
     Team |-> Undefined, Contact |-> Undefined, Link |-> Undefined]

LkRows ==
    { LkRow(<<"a", "b">>, <<"x", ",", " ", "C", "d">>, <<"d", "1">>, <<"p", "m">>),
      LkRow(<<" ", "A", "B", " ">>, Undefined, <<"d", "2", "\n">>, Undefined),
      LkRow(<<"c", "d">>, <<"A", "B", ",", " ", ",", "y">>, <<"d", "\n", "3", "\n">>, <<"n", "/", "a">>),
      LkRow(<<>>, <<>>, <<"d", "4">>, Undefined),
      LkRow(Undefined, <<"w", "h", "y", ",", "x">>, Undefined, Undefined),
      LkRow(<<"W", "h", "y">>, <<"y">>, <<"d", "6">>, Undefined),
      LkRow(<<"e", "f">>, <<"y", " ", ",", "e", "f">>, Undefined, <<"0">>) }

RECURSIVE SheetsUpTo(_)
SheetsUpTo(n) ==
    IF n = 0 THEN {<<>>}
    ELSE LET shorter == SheetsUpTo(n - 1)
         IN  shorter \cup {Append(sh, r) : sh \in shorter, r \in LkRows}

\* the comma-separated pieces of an Alias cell as written in the sheet
RawTokens(alias) ==
    IF alias = Undefined THEN {}
    ELSE {split(alias, ",")[i] : i \in DOMAIN split(alias, ",")}

LkQueries ==
    {r.Explain : r \in {x \in LkRows : x.Explain # Undefined}}
        \cup UNION {RawTokens(r.Alias) : r \in LkRows}
        \cup {<<" ">>, <<"z", "z">>, <<" ", "W", "H", "Y">>, <<"A", "b", "\n">>}

InitLookup ==
    /\ explainSheet \in SheetsUpTo(MaxRows)
    /\ whySheet = ExampleWhySheet
    /\ LookupIdle
    /\ MeetIdle
    /\ FormatIdle
    /\ RequestsIdle

\* one call of fetchExplanation in which every awaited call succeeds
CallFetchExplanation ==
    \E q \in LkQueries, d \in randomRowIndexes(getRows(whySheet)) :
        /\ lkPrev.query = Pending
        /\ lkPrev' = [query |-> lkQuery, out |-> lkOut]
        /\ lkQuery' = q
        /\ lkOut' = fetchExplanationResult(q, getRows(explainSheet), getRows(whySheet), d)
        /\ UNCHANGED <<meetVars, fmtVars, sheetVars, reqVars>>

NextLookup == CallFetchExplanation

SpecLookup == InitLookup /\ [][NextLookup]_vars

\* a query or a cell, trimmed and lower-cased; a missing or empty cell is ""
Norm(v) == IF v = Undefined THEN <<>> ELSE trim(toLowerCase(v))

NormTokens(alias) == {Norm(t) : t \in RawTokens(alias)}

\* the row carries the normalized query nq as its Explain value or as one of
\* its alias tokens, the empty string included
CarriesAny(r, nq) == Norm(r.Explain) = nq \/ nq \in NormTokens(r.Alias)

\* the same, an alias token counting only for a non-empty query
Carries(r, nq) == Norm(r.Explain) = nq \/ (nq # <<>> /\ nq \in NormTokens(r.Alias))

FirstCarrying(rs, nq) ==
    CHOOSE i \in DOMAIN rs : Carries(rs[i], nq) /\ \A j \in 1..(i - 1) : ~Carries(rs[j], nq)

FirstCarryingAny(rs, nq) ==
    CHOOSE i \in DOMAIN rs : CarriesAny(rs[i], nq) /\ \A j \in 1..(i - 1) : ~CarriesAny(rs[j], nq)

\* C2 as stated: for a query that is not "why", the answer is the table of the
\* first row whose Explain value or one of whose alias tokens equals the
\* normalized query, the empty query included, and the usage string exactly
\* when there is no such row.
C2_FirstMatchAnyQuery ==
    (lkOut # Pending /\ ~isWhy(lkQuery)) =>
        LET nq == Norm(lkQuery)
            rs == getRows(explainSheet)
        IN  /\ (lkOut = usage) <=> ~\E i \in DOMAIN rs : CarriesAny(rs[i], nq)
            /\ (\E i \in DOMAIN rs : CarriesAny(rs[i], nq))
                   => lkOut = formatRowToMDTable(rs[FirstCarryingAny(rs, nq)])

\* C2 as amended: the same, except that an alias token equal to the empty
\* string does not make a row match the empty query.
C2_FirstMatch ==
    (lkOut # Pending /\ ~isWhy(lkQuery)) =>
        LET nq == Norm(lkQuery)
            rs == getRows(explainSheet)
        IN  /\ (lkOut = usage) <=> ~\E i \in DOMAIN rs : Carries(rs[i], nq)
            /\ (\E i \in DOMAIN rs : Carries(rs[i], nq))
                   => lkOut = formatRowToMDTable(rs[FirstCarrying(rs, nq)])

\* a call whose query matches the second row through an alias token only,
\* while the first row does not match
C2_Witness ==
    /\ lkOut \notin {Pending, usage, TypeError}
    /\ Len(explainSheet) = 2
    /\ ~Carries(explainSheet[1], Norm(lkQuery))
    /\ Norm(explainSheet[2].Explain) # Norm(lkQuery)
    /\ Norm(lkQuery) \in NormTokens(explainSheet[2].Alias)

\* the two calls made were fetchExplanation(t) and then fetchExplanation(r.Explain)
AskedTokenThenExplain(r, t) ==
    /\ lkPrev.query = t
    /\ r.Explain # Undefined
    /\ lkQuery = r.Explain

\* C3 as stated: for every row r and every alias token t of r,
\* fetchExplanation(t) returns what fetchExplanation(r.Explain) returns,
\* whatever else the sheet holds.
C3_AliasSameAsExplainAnySheet ==
    \A i \in DOMAIN explainSheet : \A t \in RawTokens(explainSheet[i].Alias) :
        AskedTokenThenExplain(explainSheet[i], t) => lkPrev.out = lkOut

\* C3 as amended: the two calls agree when t and r.Explain are non-empty and not
\* "why" after normalization and no row before r carries either of them.
C3_AliasSameAsExplain ==
    \A i \in DOMAIN explainSheet : \A t \in RawTokens(explainSheet[i].Alias) :
        LET r == explainSheet[i]
        IN  (/\ AskedTokenThenExplain(r, t)
             /\ Norm(t) \notin {<<>>, <<"w", "h", "y">>}
             /\ Norm(r.Explain) \notin {<<>>, <<"w", "h", "y">>}
             /\ \A j \in 1..(i - 1) :
                    /\ ~Carries(explainSheet[j], Norm(t))
                    /\ ~Carries(explainSheet[j], Norm(r.Explain)))
            => /\ lkPrev.out = lkOut
               /\ lkOut = formatRowToMDTable(getRows(explainSheet)[i])

\* both calls were made for the second row of a sheet and one of its alias
\* tokens, and both returned that row's table
C3_Witness ==
    /\ Len(explainSheet) = 2
    /\ \E t \in RawTokens(explainSheet[2].Alias) :
           /\ AskedTokenThenExplain(explainSheet[2], t)
           /\ Norm(t) # Norm(explainSheet[2].Explain)
    /\ lkPrev.out = lkOut
    /\ lkOut \notin {usage, TypeError}

IsPrefix(p, s) == Len(p) <= Len(s) /\ SubSeq(s, 1, Len(p)) = p

\* the query equals the Explain value of some row up to case and whitespace
MatchesAnExplainField ==
    /\ lkOut # Pending
    /\ \E i \in DOMAIN explainSheet :
           /\ explainSheet[i].Explain # Undefined
           /\ Norm(explainSheet[i].Explain) = Norm(lkQuery)

\* C4 as stated: when the query matches a row's Explain field up to case and
\* whitespace, the result is a table that starts with the header
\* | Explain | Definition | and the separator.
C4_HeaderExplainDefinition ==
    MatchesAnExplainField => IsPrefix(TableHeaderExplain, lkOut)

\* C4 as amended: when the query (not "why") matches a row's Explain field and
\* the first matching row has a Definition, the result starts with the header
\* | Title | Description |, the separator, and then the row
\* | <Explain> | <Definition> | of the first matching row, each value as
\* sanitizeValue returns it, before any PM, Team, Contact or Link row.
C4_HeaderThenExplainRow ==
    (MatchesAnExplainField /\ ~isWhy(lkQuery)) =>
        LET rs == getRows(explainSheet)
            m == rs[FirstCarrying(rs, Norm(lkQuery))]
            first == <<"|", " ">> \o sanitizeValue(m.Explain) \o <<" ", "|", " ">>
                         \o sanitizeValue(m.Definition) \o <<" ", "|">>
            head == <<"|", " ", "T", "i", "t", "l", "e", " ", "|", " ", "D", "e", "s",
                      "c", "r", "i", "p", "t", "i", "o", "n", " ", "|", "\n",
                      "|", "-", "-", "|", "-", "-", "|", "\n">>
        IN  (m.Explain # Undefined /\ m.Definition # Undefined) =>
                /\ IsPrefix(head \o first, lkOut)
                /\ \/ Len(lkOut) = Len(head \o first)
                   \/ lkOut[Len(head \o first) + 1] = "\n"

\* a call whose query differs from the Explain cell in case and whitespace and
\* whose table has a PM row after the Explain row
C4_Witness ==
    /\ MatchesAnExplainField
    /\ lkQuery = <<" ", "A", "B", " ">>
    /\ Len(explainSheet) >= 1
    /\ explainSheet[1].Explain = <<"a", "b">>
    /\ explainSheet[1].PM = <<"p", "m">>
    /\ lkOut \notin {usage, TypeError}

\* ------------------------------------------------------------------------
\* SpecMeet: generateMeetLink applied to bounded inputs
\* ------------------------------------------------------------------------

\* longest run of padding characters put between the head and the tail
MaxPad == 60

\* longest head of an input
MaxHead == 2

MeetChars == {"@", " ", "a"}

RECURSIVE Strings(_, _)
Strings(chars, n) ==
    IF n = 0 THEN {<<>>}
    ELSE LET shorter == Strings(chars, n - 1)
         IN  shorter \cup {Append(s, c) : s \in shorter, c \in chars}

Pad(k) == [i \in 1..k |-> "b"]

MeetInputs ==
    {h \o Pad(k) \o t : h \in Strings(MeetChars, MaxHead), k \in 0..MaxPad,
                        t \in Strings(MeetChars, 1)}

InitMeet ==
    /\ participants \in MeetInputs
    /\ meetOut = Pending
    /\ FormatIdle
    /\ LookupIdle
    /\ SheetsFixed
    /\ RequestsIdle

CallGenerateMeetLink ==
    /\ meetOut = Pending
    /\ meetOut' = generateMeetLink(participants)
    /\ UNCHANGED <<participants, fmtVars, sheetVars, lkVars, reqVars>>

NextMeet == CallGenerateMeetLink

SpecMeet == InitMeet /\ [][NextMeet]_vars

\* the place in the cleaned participants of the character at position i of p,
\* which is not an "@": the number of characters up to i that are not "@"
PlaceOf(p, i) == Cardinality({j \in 1..i : p[j] # "@"})

\* the length of the participants once every "@" is dropped
CleanedLen(p) == Cardinality({j \in DOMAIN p : p[j] # "@"})

\* C7: generateMeetLink(p) is the prefix, the code, one space and p itself;
\* the code is the cleaned participants cut to the first 59 characters, so it
\* is at most 59 long and holds no "@" and no space.
C7_MeetLink ==
    meetOut # Pending =>
        LET n == Len(meetOut)
            m == Len(participants)
            codeLen == n - Len(MeetPrefix) - 1 - m
            code == SubSeq(meetOut, Len(MeetPrefix) + 1, Len(MeetPrefix) + codeLen)
            cleanedLen == CleanedLen(participants)
        IN  /\ codeLen >= 0
            /\ codeLen <= 59
            /\ SubSeq(meetOut, 1, Len(MeetPrefix)) = MeetPrefix
            /\ SubSeq(meetOut, n - m + 1, n) = participants
            /\ meetOut[n - m] = " "
            /\ codeLen = (IF cleanedLen < 59 THEN cleanedLen ELSE 59)
            /\ \A i \in 1..codeLen : code[i] \notin {"@", " "}
            /\ \A i \in DOMAIN participants :
                   (participants[i] # "@" /\ PlaceOf(participants, i) <= codeLen)
                   => code[PlaceOf(participants, i)] =
                          (IF participants[i] = " " THEN "-" ELSE participants[i])

\* a call on an input whose cleaned form is longer than 59 and was cut
C7_Witness ==
    /\ meetOut # Pending
    /\ CleanedLen(participants) > 59
    /\ \E i \in DOMAIN participants : participants[i] = "@"
    /\ \E i \in DOMAIN participants : participants[i] = " "

====
